---- MODULE Spec2Model ----
(***************************************************************************)
(* WhatsApp transcript analyser: the transcript parser, the keyword search *)
(* and highlight engine (utils.py) and the serverless handler that routes  *)
(* requests to them (api/index.py).                                        *)
(*                                                                         *)
(* Text is modelled as a sequence of one-character strings, so that the    *)
(* regular expressions, str.strip, str.lower, str.find and re.sub are      *)
(* computed on characters.                                                 *)
(***************************************************************************)
EXTENDS Integers, Sequences, FiniteSets, TLC

VARIABLES
    pc,               \* position of the running call
    lines,            \* parse_whatsapp_txt: the lines read from the file
    idx,              \* parse_whatsapp_txt: index of the next line of the loop
    messages,         \* parse_whatsapp_txt: `messages`; input of the engine
    buffer,           \* parse_whatsapp_txt: `buffer`
    msg_id,           \* parse_whatsapp_txt: `msg_id`
    keywords,         \* analyze_keywords / highlight_lines: `keywords`
    fuzzy_threshold,  \* analyze_keywords: `fuzzy_threshold`, in percent
    raising,          \* the (keyword, text) pairs on which fuzz.partial_ratio raises
    result,           \* analyze_keywords: the returned list (or Raised)
    out,              \* highlight_lines: the returned list
    out2,             \* highlight_lines applied to the rendering `out`
    request,          \* handler: the request
    response          \* handler: the returned response

vars == <<pc, lines, idx, messages, buffer, msg_id, keywords, fuzzy_threshold,
          raising, result, out, out2, request, response>>

(***************************************************************************)
(* Python values                                                           *)
(***************************************************************************)
\* Python's None (a record, so that it compares with message and date records).
None == [none |-> TRUE]

Max(a, b) == IF a >= b THEN a ELSE b

Min(a, b) == IF a <= b THEN a ELSE b

\* s[a-1:b] of Python, with 1-based inclusive positions a..b: the bounds are
\* clipped to the string, and the slice is empty when b < a.
Slice(s, a, b) ==
    IF Min(b, Len(s)) < Max(a, 1) THEN <<>>
    ELSE SubSeq(s, Max(a, 1), Min(b, Len(s)))

(***************************************************************************)
(* Characters                                                              *)
(***************************************************************************)
Digit == {"0", "1", "2", "3", "4", "5", "6", "7", "8", "9"}

DigitVal(c) ==
    CASE c = "0" -> 0 [] c = "1" -> 1 [] c = "2" -> 2 [] c = "3" -> 3
      [] c = "4" -> 4 [] c = "5" -> 5 [] c = "6" -> 6 [] c = "7" -> 7
      [] c = "8" -> 8 [] c = "9" -> 9

\* \s of the regular expressions and the characters str.strip() removes.
IsSpace(c) == c \in {" ", "\t", "\n", "\r"}

UpperLetters ==
    <<"A", "B", "C", "D", "E", "F", "G", "H", "I", "J", "K", "L", "M",
      "N", "O", "P", "Q", "R", "S", "T", "U", "V", "W", "X", "Y", "Z">>

LowerLetters ==
    <<"a", "b", "c", "d", "e", "f", "g", "h", "i", "j", "k", "l", "m",
      "n", "o", "p", "q", "r", "s", "t", "u", "v", "w", "x", "y", "z">>

\* str.lower() of one character.
LowerChar(c) ==
    IF \E i \in 1..Len(UpperLetters) : UpperLetters[i] = c
    THEN LowerLetters[CHOOSE i \in 1..Len(UpperLetters) : UpperLetters[i] = c]
    ELSE c

\* str.lower()
Lower(s) == [i \in 1..Len(s) |-> LowerChar(s[i])]

\* str.strip(): leading and trailing whitespace removed.
Strip(s) ==
    LET keep == {i \in 1..Len(s) : ~IsSpace(s[i])}
    IN  IF keep = {} THEN <<>>
        ELSE Slice(s, CHOOSE i \in keep : \A j \in keep : i <= j,
                      CHOOSE i \in keep : \A j \in keep : i >= j)

\* The value of a run of decimal digits, int(...) of it.
RECURSIVE IntOf(_)
IntOf(s) ==
    IF s = <<>> THEN 0
    ELSE 10 * IntOf(Slice(s, 1, Len(s) - 1)) + DigitVal(s[Len(s)])

(***************************************************************************)
(* Regular-expression pieces.  A position is the index of the next         *)
(* character to read; each piece maps a set of start positions to the set  *)
(* of positions where a match of the piece can end.                        *)
(***************************************************************************)
\* \d{lo,hi}
ReDigits(s, ps, lo, hi) ==
    {q \in 1..(Len(s) + 1) :
        \E p \in ps : /\ q - p \in lo..hi
                      /\ \A j \in p..(q - 1) : s[j] \in Digit}

\* one literal character
ReLit(s, ps, c) == {p + 1 : p \in {q \in ps : q <= Len(s) /\ s[q] = c}}

\* \s* (lo = 0) and \s+ (lo = 1)
ReSpaces(s, ps, lo) ==
    {q \in 1..(Len(s) + 1) :
        \E p \in ps : /\ q - p >= lo
                      /\ \A j \in p..(q - 1) : IsSpace(s[j])}

\* \d{1,2}/\d{1,2}/\d{2,4} anchored at the start of the line: the ends of group 1.
ReDate(s) ==
    ReDigits(s, ReLit(s, ReDigits(s, ReLit(s, ReDigits(s, {1}, 1, 2), "/"),
                                  1, 2), "/"), 2, 4)

\* \d{1,2}:\d{2} from the positions ps: the ends of group 2.
ReTime(s, ps) == ReDigits(s, ReLit(s, ReDigits(s, ps, 1, 2), ":"), 2, 2)

\* \s*-\s* after group 2: the starts of group 3.
ReDash(s, ps) == ReSpaces(s, ReLit(s, ReSpaces(s, ps, 0), "-"), 0)

\* (.*?): from a0: the positions of a colon that can close group 3
\* ("." matches anything but a newline).
ReAuthorColon(s, a0) ==
    {c \in a0..Len(s) : s[c] = ":" /\ \A j \in a0..(c - 1) : s[j] # "\n"}

\* \s*(.*)$ after the colon at c: the start of group 4 (the greedy \s* takes
\* all the whitespace it can), or 0 when the rest cannot match.
ReTextStart(s, c) ==
    LET qs == {q \in ReSpaces(s, {c + 1}, 0) :
                   \A j \in q..Len(s) : s[j] # "\n"}
    IN  IF qs = {} THEN 0 ELSE CHOOSE q \in qs : \A r \in qs : q >= r

\* Between group 1 and group 2: \s+ in PATTERN1, ,\s* in PATTERN2.
ReSeparator(s, e1, comma) ==
    IF comma THEN ReSpaces(s, ReLit(s, {e1}, ","), 0) ELSE ReSpaces(s, {e1}, 1)

\* The ways a header pattern matches a line: <<end of group 1, start of
\* group 2, end of group 2, start of group 3, colon closing group 3>>.
HeaderMatches(s, comma) ==
    UNION {UNION {UNION {UNION {
        {<<e1, t0, e2, a0, c>> : c \in {x \in ReAuthorColon(s, a0) :
                                            ReTextStart(s, x) # 0}}
        : a0 \in ReDash(s, {e2})}
        : e2 \in ReTime(s, {t0})}
        : t0 \in ReSeparator(s, e1, comma)}
        : e1 \in ReDate(s)}

\* The match the regex engine returns: greedy quantifiers take the longest
\* alternative first, the lazy (.*?) the shortest.
FirstMatch(ms) ==
    CHOOSE m \in ms : \A n \in ms :
        \/ m[1] > n[1]
        \/ m[1] = n[1] /\ m[2] > n[2]
        \/ m[1] = n[1] /\ m[2] = n[2] /\ m[3] > n[3]
        \/ m[1] = n[1] /\ m[2] = n[2] /\ m[3] = n[3] /\ m[4] > n[4]
        \/ m[1] = n[1] /\ m[2] = n[2] /\ m[3] = n[3] /\ m[4] = n[4] /\ m[5] <= n[5]

\* The match object: group(1)..group(4), or None.
MatchObject(s, ms) ==
    IF ms = {} THEN None
    ELSE LET m == FirstMatch(ms)
         IN  [g1 |-> Slice(s, 1, m[1] - 1),
              g2 |-> Slice(s, m[2], m[3] - 1),
              g3 |-> Slice(s, m[4], m[5] - 1),
              g4 |-> Slice(s, ReTextStart(s, m[5]), Len(s))]

\* PATTERN1.match(line): <date> <time> - <author>: <message>
PATTERN1(s) == MatchObject(s, HeaderMatches(s, FALSE))

\* PATTERN2.match(line): <date>, <time> - <author>: <message>
PATTERN2(s) == MatchObject(s, HeaderMatches(s, TRUE))

(***************************************************************************)
(* __try_parse_date: datetime.strptime over the four formats               *)
(***************************************************************************)
\* The four formats, in the order tried: year4 is %Y (else %y), sec is :%S.
DateFormats ==
    <<[year4 |-> TRUE, sec |-> FALSE], [year4 |-> FALSE, sec |-> FALSE],
      [year4 |-> TRUE, sec |-> TRUE], [year4 |-> FALSE, sec |-> TRUE]>>

\* The ways the format's regular expression covers the whole string: the
\* ends of %d, %m, %Y or %y, the start and end of %H, the ends of %M and %S.
StrptimeSplits(ds, fmt) ==
    LET yd == IF fmt.year4 THEN 4 ELSE 2
        last(p6) == IF fmt.sec THEN ReDigits(ds, ReLit(ds, {p6}, ":"), 1, 2)
                    ELSE {p6}
    IN  UNION {UNION {UNION {UNION {UNION {UNION {
        {<<p1, p2, p3, p4, p5, p6, p7>> : p7 \in last(p6) \cap {Len(ds) + 1}}
        : p6 \in ReDigits(ds, ReLit(ds, {p5}, ":"), 1, 2)}
        : p5 \in ReDigits(ds, {p4}, 1, 2)}
        : p4 \in ReSpaces(ds, {p3}, 1)}
        : p3 \in ReDigits(ds, ReLit(ds, {p2}, "/"), yd, yd)}
        : p2 \in ReDigits(ds, ReLit(ds, {p1}, "/"), 1, 2)}
        : p1 \in ReDigits(ds, {1}, 1, 2)}

\* calendar.isleap
IsLeap(y) == y % 4 = 0 /\ (y % 100 # 0 \/ y % 400 = 0)

\* The number of days of a month, as the datetime constructor checks it.
DaysInMonth(y, m) ==
    IF m = 2 THEN (IF IsLeap(y) THEN 29 ELSE 28)
    ELSE IF m \in {4, 6, 9, 11} THEN 30 ELSE 31

\* The fields one split yields; %y maps 69..99 to 19xx and 0..68 to 20xx.
StrptimeFields(ds, fmt, sp) ==
    LET yy == IntOf(Slice(ds, sp[2] + 1, sp[3] - 1))
    IN  [year   |-> IF fmt.year4 THEN yy
                    ELSE IF yy >= 69 THEN 1900 + yy ELSE 2000 + yy,
         month  |-> IntOf(Slice(ds, sp[1] + 1, sp[2] - 1)),
         day    |-> IntOf(Slice(ds, 1, sp[1] - 1)),
         hour   |-> IntOf(Slice(ds, sp[4], sp[5] - 1)),
         minute |-> IntOf(Slice(ds, sp[5] + 1, sp[6] - 1)),
         second |-> IF fmt.sec THEN IntOf(Slice(ds, sp[6] + 1, sp[7] - 1)) ELSE 0]

\* The field ranges the directives' regular expressions and the datetime
\* constructor accept.
ValidDateTime(d) ==
    /\ d.year \in 1..9999
    /\ d.month \in 1..12
    /\ d.day \in 1..DaysInMonth(d.year, d.month)
    /\ d.hour \in 0..23
    /\ d.minute \in 0..59
    /\ d.second \in 0..61

\* datetime.strptime(date_str, fmt): the datetime, or None where it raises.
Strptime(ds, fmt) ==
    LET ok == {d \in {StrptimeFields(ds, fmt, sp) : sp \in StrptimeSplits(ds, fmt)} :
                   ValidDateTime(d)}
    IN  IF ok = {} THEN None ELSE CHOOSE d \in ok : TRUE

\* __try_parse_date: the first format that parses wins, None when none does.
TryParseDateOnlyFirst(date_str) == Strptime(date_str, DateFormats[1])

_try_parse_date(date_str) ==
    LET hits == {i \in 1..Len(DateFormats) : Strptime(date_str, DateFormats[i]) # None}
    IN  IF hits = {} THEN None
        ELSE Strptime(date_str, DateFormats[CHOOSE i \in hits : \A j \in hits : i <= j])

(***************************************************************************)
(* parse_whatsapp_txt                                                      *)
(***************************************************************************)
\* str.rstrip("\n")
RECURSIVE RstripNewline(_)
RstripNewline(s) ==
    IF s # <<>> /\ s[Len(s)] = "\n" THEN RstripNewline(Slice(s, 1, Len(s) - 1))
    ELSE s

\* `if buffer:` - a message dict is never empty, so it is truthy unless None.
Truthy(b) == b # None

\* The buffer a matching header line opens (lines 60-67).
HeaderBuffer(m, id) ==
    [id |-> id,
     date |-> _try_parse_date(m.g1 \o <<" ">> \o m.g2),
     author |-> Strip(m.g3),
     text |-> Strip(m.g4)]

\* A continuation line joins the open buffer's text after one newline
\* (line 72).  The mutant joins it with no separator.
AppendContinuationNoNewline(buf, line) == [buf EXCEPT !.text = @ \o line]

AppendContinuation(buf, line) == [buf EXCEPT !.text = @ \o <<"\n">> \o line]

\* Content before any header opens the degenerate buffer under a fresh id
\* (lines 74-75).  The mutant forgets to count the id it hands out.
OpenDegenerateKeepsId(st, line) ==
    [st EXCEPT !.buffer = [id |-> st.msg_id + 1, date |-> None,
                           author |-> <<>>, text |-> line]]

OpenDegenerate(st, line) ==
    [st EXCEPT !.msg_id = @ + 1,
               !.buffer = [id |-> st.msg_id + 1, date |-> None,
                           author |-> <<>>, text |-> line]]

\* The body of the `for raw in lines` loop on the parser's locals
\* st = [messages, buffer, msg_id] (lines 49-75).
LoopBody(st, raw) ==
    LET line == RstripNewline(raw)
        m1 == PATTERN1(line)
        m2 == PATTERN2(line)
    IN  IF Strip(line) = <<>> THEN st
        ELSE IF m1 # None \/ m2 # None THEN
            [messages |-> IF Truthy(st.buffer) THEN Append(st.messages, st.buffer)
                          ELSE st.messages,
             buffer |-> HeaderBuffer(IF m1 # None THEN m1 ELSE m2, st.msg_id + 1),
             msg_id |-> st.msg_id + 1]
        ELSE IF Truthy(st.buffer) THEN
            [st EXCEPT !.buffer = AppendContinuation(st.buffer, line)]
        ELSE OpenDegenerate(st, line)

\* The flush after the loop (lines 77-80): the returned list.
Flush(st) ==
    IF Truthy(st.buffer) THEN Append(st.messages, st.buffer) ELSE st.messages

\* parse_whatsapp_txt on the lines read, as one function.
RECURSIVE ParseFrom(_, _, _)
ParseFrom(st, ls, i) ==
    IF i > Len(ls) THEN Flush(st) ELSE ParseFrom(LoopBody(st, ls[i]), ls, i + 1)

parse_whatsapp_txt(ls) ==
    ParseFrom([messages |-> <<>>, buffer |-> None, msg_id |-> 0], ls, 1)

(***************************************************************************)
(* The parser as a state machine: one step per line of the file            *)
(***************************************************************************)
\* Header lines: PATTERN1 with %d/%m/%Y; PATTERN2 with %d/%m/%y; a date that
\* is no calendar date, a colon and a trailing blank in the text; an empty
\* author; no blanks around the dash and an empty text.
HeaderSamples ==
    {<<"4", "/", "1", "2", "/", "2", "0", "2", "3", " ", "1", "1", ":", "1", "2", " ", "-", " ", "A", "n", "a", ":", " ", "o", "i">>,
     <<"0", "1", "/", "1", "2", "/", "2", "4", ",", " ", "1", "4", ":", "2", "2", " ", "-", " ", "B", "o", "b", ":", " ", "o", "k">>,
     <<"3", "1", "/", "2", "/", "2", "3", " ", "9", ":", "0", "5", " ", "-", " ", "A", "n", "a", ":", " ", "a", ":", "b", " ">>,
     <<"1", "/", "2", "/", "2", "3", " ", "9", ":", "0", "5", " ", "-", " ", ":", " ", "o", "i">>,
     <<"1", "/", "2", "/", "2", "3", " ", "9", ":", "0", "5", "-", "A", "n", "a", ":">>}

\* Lines no header pattern matches: empty; whitespace only; a continuation;
\* a continuation with blanks and a colon; header-like with no colon after
\* the author.
OtherSamples ==
    {<<>>,
     <<" ">>,
     <<"t", "u", "d", "o", " ", "b", "e", "m", "?">>,
     <<" ", "a", ":", " ", "b", " ">>,
     <<"1", "/", "2", "/", "2", "3", " ", "9", ":", "0", "5", " ", "-", " ", "A", "n", "a">>}

LineSamples == HeaderSamples \cup OtherSamples

\* The longest file read.
MaxLines == 3

SeqsUpTo(S, n) == UNION {[1..k -> S] : k \in 0..n}

\* The fields no running call uses.
Idle == <<>>

InitParse ==
    /\ pc = "parse_loop"
    /\ lines \in SeqsUpTo(LineSamples, MaxLines)
    /\ idx = 1
    /\ messages = <<>>
    /\ buffer = None
    /\ msg_id = 0
    /\ keywords = Idle /\ fuzzy_threshold = 0 /\ raising = {} /\ result = Idle
    /\ out = Idle /\ out2 = Idle /\ request = Idle /\ response = Idle

\* One iteration of `for raw in lines`.
ParseLine ==
    /\ pc = "parse_loop"
    /\ idx <= Len(lines)
    /\ LET st == LoopBody([messages |-> messages, buffer |-> buffer,
                           msg_id |-> msg_id], lines[idx])
       IN  /\ messages' = st.messages
           /\ buffer' = st.buffer
           /\ msg_id' = st.msg_id
    /\ idx' = idx + 1
    /\ UNCHANGED <<pc, lines, keywords, fuzzy_threshold, raising, result, out,
                   out2, request, response>>

\* The loop is over: the open buffer is flushed and the list returned.
ParseReturn ==
    /\ pc = "parse_loop"
    /\ idx > Len(lines)
    /\ messages' = Flush([messages |-> messages, buffer |-> buffer,
                          msg_id |-> msg_id])
    /\ pc' = "parse_done"
    /\ UNCHANGED <<lines, idx, buffer, msg_id, keywords, fuzzy_threshold,
                   raising, result, out, out2, request, response>>

NextParse == ParseLine \/ ParseReturn

SpecParse == InitParse /\ [][NextParse]_vars

(***************************************************************************)
(* Properties of the parser                                                *)
(***************************************************************************)
\* A line the loop skips: nothing but whitespace.
IsBlank(l) == \A i \in 1..Len(l) : IsSpace(l[i])

\* A header line: a line one of the two header patterns matches.
IsHeader(l) == PATTERN1(l) # None \/ PATTERN2(l) # None

\* The groups a header line captures.
HeaderGroups(l) == IF PATTERN1(l) # None THEN PATTERN1(l) ELSE PATTERN2(l)

\* The non-blank lines of the file, in order.
NonBlank(ls) == SelectSeq(ls, LAMBDA l : ~IsBlank(l))

\* The positions, among the non-blank lines, of the header lines.
Headers(nb) == {i \in 1..Len(nb) : IsHeader(nb[i])}

\* The positions of the lines that open a message, given the header
\* positions hs: every header line, and the first line when it is no header.
Openings(nb, hs) == hs \cup (IF nb # <<>> THEN {1} ELSE {})

\* The position of the line that opens the k-th message.
Opening(ops, k) == CHOOSE i \in ops : Cardinality({j \in ops : j <= i}) = k

\* The position after the last line of the k-th message.
NextOpening(nb, ops, k) ==
    IF k < Cardinality(ops) THEN Opening(ops, k + 1) ELSE Len(nb) + 1

\* The lines a..b, each preceded by one newline.
RECURSIVE Continuations(_, _, _)
Continuations(nb, a, b) ==
    IF a > b THEN <<>> ELSE <<"\n">> \o nb[a] \o Continuations(nb, a + 1, b)

\* The text an opening line contributes: the trimmed message part of a
\* header, the whole line otherwise.
OpeningText(l, header) == IF header THEN Strip(HeaderGroups(l).g4) ELSE l

\* Some format of the four parses the date and time a header captures.
SomeFormatParses(g) ==
    \E i \in 1..Len(DateFormats) :
        Strptime(g.g1 \o <<" ">> \o g.g2, DateFormats[i]) # None

\* C1: the list parse_whatsapp_txt builds and returns has ids exactly 1..N
\* in list order: the k-th emitted message has id k, whatever blank, header
\* and continuation lines the file holds.
C1_IdsGapless ==
    pc \in {"parse_loop", "parse_done"} =>
        \A k \in 1..Len(messages) : messages[k].id = k

C1_Witness ==
    /\ pc = "parse_done"
    /\ Len(messages) = 2
    /\ messages[1].date = None /\ messages[2].date # None
    /\ \E i \in 1..Len(lines) : IsBlank(lines[i])

\* C2 as claimed: a message with timestamp None or author "" is only the
\* degenerate first message built from content before any header; no message
\* a header line opened has timestamp None or author "".
C2_Original ==
    pc = "parse_done" =>
        \A k \in 1..Len(messages) :
            (messages[k].date = None \/ messages[k].author = <<>>) =>
                k = 1 /\ ~IsHeader(NonBlank(lines)[1])

\* C2 as amended: a message no header opened is the degenerate one (first
\* message, timestamp None, author ""); a message a header opened has
\* timestamp None exactly when none of the four formats parses the captured
\* date and time, and author "" exactly when the captured author is blank.
C2_NoneOnlyDegenerateOrUnparsed ==
    pc = "parse_done" =>
        LET nb == NonBlank(lines)
            hs == Headers(nb)
            ops == Openings(nb, hs)
        IN  /\ Len(messages) = Cardinality(ops)
            /\ \A k \in 1..Len(messages) :
                   LET o == Opening(ops, k)
                       g == HeaderGroups(nb[o])
                   IN  IF o \in hs
                       THEN /\ messages[k].date = None <=> ~SomeFormatParses(g)
                            /\ messages[k].author = <<>> <=> IsBlank(g.g3)
                       ELSE /\ k = 1
                            /\ messages[k].date = None
                            /\ messages[k].author = <<>>

C2_Witness ==
    /\ pc = "parse_done"
    /\ \E k \in 2..Len(messages) : messages[k].date = None
    /\ \E k \in 2..Len(messages) : messages[k].author = <<>>
    /\ \E k \in 1..Len(messages) :
           messages[k].date # None /\ messages[k].author # <<>>

\* C3: one message per header line, plus a leading degenerate one when the
\* first non-blank line is no header; each message's text is its opening
\* line's text followed by the non-blank non-header lines up to the next
\* header, verbatim and in order, each joined by one newline; blank lines
\* add nothing.
C3_TextIsOpeningPlusContinuations ==
    pc = "parse_done" =>
        LET nb == NonBlank(lines)
            hs == Headers(nb)
            ops == Openings(nb, hs)
        IN  /\ Len(messages) = Cardinality(hs)
                   + (IF nb # <<>> /\ 1 \notin hs THEN 1 ELSE 0)
            /\ \A k \in 1..Len(messages) :
                   LET o == Opening(ops, k)
                   IN  messages[k].text =
                           OpeningText(nb[o], o \in hs)
                           \o Continuations(nb, o + 1, NextOpening(nb, ops, k) - 1)

C3_Witness ==
    /\ pc = "parse_done"
    /\ Len(lines) = 3
    /\ IsHeader(lines[1]) /\ IsBlank(lines[2])
    /\ ~IsBlank(lines[3]) /\ ~IsHeader(lines[3])
    /\ Len(messages) = 1
    /\ messages[1].text = Strip(HeaderGroups(lines[1]).g4) \o <<"\n">> \o lines[3]

(***************************************************************************)
(* excerpt                                                                 *)
(***************************************************************************)
\* str.find: the 0-based offset of the first occurrence, -1 when none.
Find(hay, needle) ==
    LET at == {i \in 1..(Len(hay) - Len(needle) + 1) :
                   Slice(hay, i, i + Len(needle) - 1) = needle}
    IN  IF at = {} THEN -1 ELSE (CHOOSE i \in at : \A j \in at : i <= j) - 1

\* The default of excerpt's `context` parameter.
DefaultContext == 50

Ellipsis == <<".", ".", ".">>

\* excerpt(text, phrase, context)
excerpt(text, phrase, context) ==
    LET i == Find(Lower(text), Lower(phrase))
        start == Max(0, i - context)
        end == Min(Len(text), i + Len(phrase) + context)
    IN  IF i = -1
        THEN Slice(text, 1, 2 * context)
             \o (IF Len(text) > context * 2 THEN Ellipsis ELSE <<>>)
        ELSE (IF start > 0 THEN Ellipsis ELSE <<>>)
             \o Slice(text, start + 1, end)
             \o (IF end < Len(text) THEN Ellipsis ELSE <<>>)

(***************************************************************************)
(* Scores.  fuzz.partial_ratio returns a float in 0..100; a score is kept  *)
(* as the exact fraction num/den in lowest terms, and fuzzy_threshold as   *)
(* the percentage fuzzy_threshold * 100.                                   *)
(***************************************************************************)
RECURSIVE Gcd(_, _)
Gcd(a, b) == IF b = 0 THEN a ELSE Gcd(b, a % b)

Fraction(n, d) == [num |-> n \div Gcd(n, d), den |-> d \div Gcd(n, d)]

\* The score of an exact match (line 114).
ExactScore == Fraction(100, 1)

\* a >= b on fractions
ScoreGeq(a, b) == a.num * b.den >= b.num * a.den

\* score >= fuzzy_threshold * 100 (line 121)
AtLeastThreshold(score, threshold) == score.num >= threshold * score.den

\* The length of a longest common subsequence.
RECURSIVE Lcs(_, _)
Lcs(a, b) ==
    IF a = <<>> \/ b = <<>> THEN 0
    ELSE IF a[Len(a)] = b[Len(b)]
         THEN 1 + Lcs(Slice(a, 1, Len(a) - 1), Slice(b, 1, Len(b) - 1))
         ELSE Max(Lcs(Slice(a, 1, Len(a) - 1), b), Lcs(a, Slice(b, 1, Len(b) - 1)))

\* fuzz.ratio: the normalized Indel similarity, 100 * 2 * lcs / (len1 + len2).
Ratio(a, b) ==
    IF Len(a) + Len(b) = 0 THEN Fraction(100, 1)
    ELSE Fraction(200 * Lcs(a, b), Len(a) + Len(b))

\* The windows of the longer string the shorter one (of length n) is aligned
\* with: the prefixes and suffixes shorter than n and every substring of
\* length n.
Windows(longer, n) ==
    {Slice(longer, 1, i) : i \in 1..(n - 1)}
    \cup {Slice(longer, i, i + n - 1) : i \in 1..(Len(longer) - n + 1)}
    \cup {Slice(longer, i, Len(longer)) : i \in (Len(longer) - n + 2)..Len(longer)}

\* The best ratio of the shorter string against a window of the longer one;
\* 0 when the shorter string is empty.
BestAlignment(shorter, longer) ==
    LET scores == {Ratio(shorter, w) : w \in Windows(longer, Len(shorter))}
    IN  IF shorter = <<>> THEN Fraction(0, 1)
        ELSE CHOOSE x \in scores : \A y \in scores : ScoreGeq(x, y)

\* fuzz.partial_ratio(s1, s2): whichever string is shorter is the one searched
\* for in the other.
partial_ratio(s1, s2) ==
    IF s1 = <<>> /\ s2 = <<>> THEN Fraction(100, 1)
    ELSE IF Len(s1) < Len(s2) THEN BestAlignment(s1, s2)
    ELSE IF Len(s1) > Len(s2) THEN BestAlignment(s2, s1)
    ELSE LET x == BestAlignment(s1, s2)
             y == BestAlignment(s2, s1)
         IN  IF ScoreGeq(x, y) THEN x ELSE y

(***************************************************************************)
(* analyze_keywords                                                        *)
(***************************************************************************)
\* exact_pattern.search(text): re.escape makes the keyword a literal, and
\* re.IGNORECASE compares without case.
ExactSearch(kw, text) == Find(Lower(text), Lower(kw)) # -1

\* The match record of a message (lines 109-115, 122-128).
MatchRecord(msg, kw, score) ==
    [id |-> msg.id, date |-> msg.date, author |-> msg.author,
     text_excerpt |-> excerpt(msg.text, kw, DefaultContext), score |-> score]

\* What one message adds to `matches` when nothing raises (lines 105-128).
\* The mutant tries the fuzzy score after an exact match too.
MessageRecordsAlsoFuzzy(kw, msg, threshold) ==
    LET score == partial_ratio(Lower(kw), Lower(msg.text))
    IN  (IF ExactSearch(kw, msg.text)
         THEN <<MatchRecord(msg, kw, ExactScore)>> ELSE <<>>)
        \o (IF threshold > 0 /\ AtLeastThreshold(score, threshold)
            THEN <<MatchRecord(msg, kw, score)>> ELSE <<>>)

MessageRecords(kw, msg, threshold) ==
    IF ExactSearch(kw, msg.text) THEN <<MatchRecord(msg, kw, ExactScore)>>
    ELSE IF threshold > 0
    THEN LET score == partial_ratio(Lower(kw), Lower(msg.text))
         IN  IF AtLeastThreshold(score, threshold)
             THEN <<MatchRecord(msg, kw, score)>> ELSE <<>>
    ELSE <<>>

\* The call of fuzz.partial_ratio is reached and raises: rs holds the
\* (keyword, text) pairs on which the library call fails.
ScoringRaises(kw, msg, threshold, rs) ==
    /\ ~ExactSearch(kw, msg.text)
    /\ threshold > 0
    /\ <<kw, msg.text>> \in rs

RECURSIVE ScanMessages(_, _, _, _, _, _)

\* `except Exception: continue` (lines 129-131): on to the next message.
\* The mutant leaves the loop over the messages.
ExceptBreak(kw, msgs, j, threshold, rs, matches) == matches

ExceptContinue(kw, msgs, j, threshold, rs, matches) ==
    ScanMessages(kw, msgs, j + 1, threshold, rs, matches)

\* `for msg in messages` from the j-th message on (lines 104-131).
ScanMessages(kw, msgs, j, threshold, rs, matches) ==
    IF j > Len(msgs) THEN matches
    ELSE IF ScoringRaises(kw, msgs[j], threshold, rs)
    THEN ExceptContinue(kw, msgs, j, threshold, rs, matches)
    ELSE ScanMessages(kw, msgs, j + 1, threshold, rs,
                      matches \o MessageRecords(kw, msgs[j], threshold))

\* One iteration of `for kw in keywords` (lines 98-137): the report of kw is
\* appended.  The mutant reports a keyword only once.
AppendReportOnce(res, kw, msgs, threshold, rs) ==
    IF \E i \in 1..Len(res) : res[i].word = kw THEN res
    ELSE LET matches == ScanMessages(kw, msgs, 1, threshold, rs, <<>>)
         IN  Append(res, [word |-> kw, count |-> Len(matches), matches |-> matches])

AppendReport(res, kw, msgs, threshold, rs) ==
    LET matches == ScanMessages(kw, msgs, 1, threshold, rs, <<>>)
    IN  Append(res, [word |-> kw, count |-> Len(matches), matches |-> matches])

\* analyze_keywords(messages, keywords, fuzzy_threshold), as one function.
RECURSIVE AnalyzeFrom(_, _, _, _, _, _)
AnalyzeFrom(res, msgs, kws, i, threshold, rs) ==
    IF i > Len(kws) THEN res
    ELSE AnalyzeFrom(AppendReport(res, kws[i], msgs, threshold, rs),
                     msgs, kws, i + 1, threshold, rs)

analyze_keywords(msgs, kws, threshold, rs) ==
    AnalyzeFrom(<<>>, msgs, kws, 1, threshold, rs)

(***************************************************************************)
(* The search engine as a state machine: one step per keyword              *)
(***************************************************************************)
\* Message texts: the keyword alone; twice, on two lines; inside a larger
\* word; a near miss.
TextSamples ==
    {<<"o", "i">>,
     <<"O", "i", "\n", "o", "i">>,
     <<"b", "o", "i">>,
     <<"o", "l", "a">>}

\* Keywords: lower case, upper case, and one longer than some texts.
KeywordSamples == {<<"o", "i">>, <<"O", "I">>, <<"o", "i", "!">>}

\* fuzzy_threshold * 100: fuzzy matching off, 0.6 and 1.0.
ThresholdSamples == {0, 60, 100}

\* Either the library call never raises, or it raises on one pair.
RaisingSamples == {{}, {<<<<"o", "i">>, <<"o", "l", "a">>>>}}

\* The most messages and the most keywords of a call.
MaxMessages == 2

MaxKeywords == 2

\* A parsed transcript with the given texts: ids 1..N in order.
SampleDate == [year |-> 2023, month |-> 12, day |-> 4, hour |-> 11, minute |-> 12, second |-> 0]

MessagesOf(texts) ==
    [k \in 1..Len(texts) |->
        [id |-> k, date |-> SampleDate, author |-> <<"A", "n", "a">>,
         text |-> texts[k]]]

InitAnalyze ==
    /\ pc = "analyze_loop"
    /\ messages \in {MessagesOf(t) : t \in SeqsUpTo(TextSamples, MaxMessages)}
    /\ keywords \in SeqsUpTo(KeywordSamples, MaxKeywords)
    /\ fuzzy_threshold \in ThresholdSamples
    /\ raising \in RaisingSamples
    /\ result = <<>>
    /\ idx = 1
    /\ lines = Idle /\ buffer = None /\ msg_id = 0
    /\ out = Idle /\ out2 = Idle /\ request = Idle /\ response = Idle

\* One iteration of `for kw in keywords`.
AnalyzeKeyword ==
    /\ pc = "analyze_loop"
    /\ idx <= Len(keywords)
    /\ result' = AppendReport(result, keywords[idx], messages, fuzzy_threshold,
                              raising)
    /\ idx' = idx + 1
    /\ UNCHANGED <<pc, lines, messages, buffer, msg_id, keywords,
                   fuzzy_threshold, raising, out, out2, request, response>>

\* `return result`
AnalyzeReturn ==
    /\ pc = "analyze_loop"
    /\ idx > Len(keywords)
    /\ pc' = "analyze_done"
    /\ UNCHANGED <<lines, idx, messages, buffer, msg_id, keywords,
                   fuzzy_threshold, raising, result, out, out2, request, response>>

NextAnalyze == AnalyzeKeyword \/ AnalyzeReturn

SpecAnalyze == InitAnalyze /\ [][NextAnalyze]_vars

(***************************************************************************)
(* Properties of the search engine                                         *)
(***************************************************************************)
\* The keyword is a case-insensitive literal substring of the text.
IsSubstringNoCase(kw, text) ==
    \E i \in 1..(Len(text) - Len(kw) + 1) :
        \A j \in 1..Len(kw) : LowerChar(text[i + j - 1]) = LowerChar(kw[j])

\* The message a match record refers to.
MessageOf(rec) == messages[rec.id]

\* C4 as claimed: in every match record, score = 100 exactly when the keyword
\* is a case-insensitive literal substring of the message text; a record with
\* score < 100 appears only when fuzzy_threshold > 0 and has
\* score >= fuzzy_threshold * 100.
C4_ScoreHundredIffExact ==
    pc = "analyze_done" =>
        \A i \in 1..Len(result) : \A r \in 1..Len(result[i].matches) :
            LET rec == result[i].matches[r]
            IN  /\ rec.score = ExactScore
                       <=> IsSubstringNoCase(result[i].word, MessageOf(rec).text)
                /\ rec.score # ExactScore =>
                       /\ ~ScoreGeq(rec.score, ExactScore)
                       /\ fuzzy_threshold > 0
                       /\ AtLeastThreshold(rec.score, fuzzy_threshold)

\* The records a report holds when the pairs on which scoring raised yield
\* nothing and every other message yields what it yields on its own.
MatchesSkippingRaised(kw, j) ==
    IF ScoringRaises(kw, messages[j], fuzzy_threshold, raising) THEN <<>>
    ELSE ScanMessages(kw, <<messages[j]>>, 1, fuzzy_threshold, {}, <<>>)

RECURSIVE ConcatUpTo(_, _)
ConcatUpTo(kw, n) ==
    IF n = 0 THEN <<>> ELSE ConcatUpTo(kw, n - 1) \o MatchesSkippingRaised(kw, n)

\* Scoring raised for the i-th keyword on the j-th message.
RaisedAt(i, j) == ScoringRaises(keywords[i], messages[j], fuzzy_threshold, raising)

\* C5: when scoring raises for a message/keyword pair, the pair yields no
\* record and the call still returns: every report holds exactly the records
\* of the other messages, as if the pair had simply not matched.
C5_ScoringFailureIsolated ==
    pc = "analyze_done" =>
        /\ Len(result) = Len(keywords)
        /\ \A i \in 1..Len(result) :
               result[i].matches = ConcatUpTo(keywords[i], Len(messages))

C5_Witness ==
    /\ pc = "analyze_done"
    /\ Len(messages) = 2 /\ Len(keywords) = 2
    /\ RaisedAt(1, 1) /\ ~RaisedAt(1, 2) /\ ~RaisedAt(2, 1)
    /\ result[1].count = 1 /\ result[1].matches[1].id = 2
    /\ result[2].count = 2

\* C6: one report per keyword, in input order; a keyword given twice yields
\* two reports with identical count and matches.
C6_OneReportPerKeyword ==
    pc = "analyze_done" =>
        /\ Len(result) = Len(keywords)
        /\ \A i \in 1..Len(result) : result[i].word = keywords[i]
        /\ \A i, j \in 1..Len(result) :
               keywords[i] = keywords[j] =>
                   /\ result[i].count = result[j].count
                   /\ result[i].matches = result[j].matches

C6_Witness ==
    /\ pc = "analyze_done"
    /\ Len(keywords) = 2 /\ keywords[1] = keywords[2]
    /\ Len(result) = 2 /\ result[1].count >= 1

\* C10: count is the length of matches; the message ids in matches are
\* strictly increasing (at most one record per message, in message order);
\* a message that matches exactly is recorded with score 100 only.
C10_OneRecordPerMessageInOrder ==
    pc \in {"analyze_loop", "analyze_done"} =>
        \A i \in 1..Len(result) :
            /\ result[i].count = Len(result[i].matches)
            /\ \A a, b \in 1..Len(result[i].matches) :
                   a < b => result[i].matches[a].id < result[i].matches[b].id
            /\ \A a \in 1..Len(result[i].matches) :
                   IsSubstringNoCase(result[i].word,
                                     MessageOf(result[i].matches[a]).text)
                       => result[i].matches[a].score = ExactScore

C10_Witness ==
    /\ pc = "analyze_done"
    /\ \E i \in 1..Len(result) :
           /\ result[i].count = 2
           /\ result[i].matches[1].score = ExactScore
           /\ Len(SelectSeq(Lower(MessageOf(result[i].matches[1]).text),
                            LAMBDA c : c = "o")) = 2
           /\ result[i].matches[2].score # ExactScore

(***************************************************************************)
(* highlight_lines                                                         *)
(***************************************************************************)
MarkOpen == <<"<", "m", "a", "r", "k", ">">>

MarkClose == <<"<", "/", "m", "a", "r", "k", ">">>

LineBreak == <<"<", "b", "r", ">">>

\* The pattern re.escape(kw) matches at position i of txt.  The mutant
\* forgets flags=re.IGNORECASE.
MatchesAtCaseSensitive(kw, txt, i) ==
    /\ i \in 1..(Len(txt) + 1)
    /\ i + Len(kw) - 1 <= Len(txt)
    /\ \A j \in 1..Len(kw) : txt[i + j - 1] = kw[j]

MatchesAt(kw, txt, i) ==
    /\ i \in 1..(Len(txt) + 1)
    /\ i + Len(kw) - 1 <= Len(txt)
    /\ \A j \in 1..Len(kw) : LowerChar(txt[i + j - 1]) = LowerChar(kw[j])

\* re.sub from position i on: the leftmost matches, not overlapping, each
\* wrapped in <mark>...</mark>; an empty match is followed by the next
\* character of the text.
RECURSIVE SubFrom(_, _, _)
SubFrom(kw, txt, i) ==
    LET at == {j \in i..(Len(txt) + 1) : MatchesAt(kw, txt, j)}
        m == CHOOSE j \in at : \A q \in at : j <= q
    IN  IF at = {} THEN Slice(txt, i, Len(txt))
        ELSE Slice(txt, i, m - 1)
             \o MarkOpen \o Slice(txt, m, m + Len(kw) - 1) \o MarkClose
             \o (IF kw # <<>> THEN SubFrom(kw, txt, m + Len(kw))
                 ELSE IF m > Len(txt) THEN <<>>
                 ELSE <<txt[m]>> \o SubFrom(kw, txt, m + 1))

\* `for kw in keywords: txt = re.sub(...)` from the i-th keyword on
\* (lines 148-157).
RECURSIVE MarkKeywords(_, _, _)
MarkKeywords(txt, kws, i) ==
    IF i > Len(kws) THEN txt
    ELSE MarkKeywords(SubFrom(kws[i], txt, 1), kws, i + 1)

\* txt.replace("\n", "<br>")
RECURSIVE ReplaceNewlines(_)
ReplaceNewlines(txt) ==
    LET at == {j \in 1..Len(txt) : txt[j] = "\n"}
        m == CHOOSE j \in at : \A q \in at : j <= q
    IN  IF at = {} THEN txt
        ELSE Slice(txt, 1, m - 1) \o LineBreak
             \o ReplaceNewlines(Slice(txt, m + 1, Len(txt)))

\* highlight_lines(messages, keywords)
highlight_lines(msgs, kws) ==
    [k \in 1..Len(msgs) |->
        [id |-> msgs[k].id, date |-> msgs[k].date, author |-> msgs[k].author,
         html |-> ReplaceNewlines(MarkKeywords(msgs[k].text, kws, 1))]]

(***************************************************************************)
(* highlight_lines applied once, and again to its own rendering            *)
(***************************************************************************)
\* Keywords: lower case, upper case, a letter of <br>, a letter of <mark>
\* and of a text.
HighlightKeywordSamples == {<<"o", "i">>, <<"O", "I">>, <<"b">>, <<"l", "a">>}

InitHighlight ==
    /\ pc = "highlight_start"
    /\ messages \in {MessagesOf(t) : t \in SeqsUpTo(TextSamples, MaxMessages)}
    /\ keywords \in SeqsUpTo(HighlightKeywordSamples, MaxKeywords)
    /\ out = <<>>
    /\ out2 = <<>>
    /\ lines = Idle /\ idx = 1 /\ buffer = None /\ msg_id = 0
    /\ fuzzy_threshold = 0 /\ raising = {} /\ result = Idle
    /\ request = Idle /\ response = Idle

\* highlight_lines(messages, keywords)
Highlight ==
    /\ pc = "highlight_start"
    /\ out' = highlight_lines(messages, keywords)
    /\ pc' = "highlight_once"
    /\ UNCHANGED <<lines, idx, messages, buffer, msg_id, keywords,
                   fuzzy_threshold, raising, result, out2, request, response>>

\* The rendering fed back as the messages' text.
Rendered(hl) ==
    [k \in 1..Len(hl) |->
        [id |-> hl[k].id, date |-> hl[k].date, author |-> hl[k].author,
         text |-> hl[k].html]]

\* highlight_lines again, on the rendering, with the same keywords.
HighlightAgain ==
    /\ pc = "highlight_once"
    /\ out2' = highlight_lines(Rendered(out), keywords)
    /\ pc' = "highlight_twice"
    /\ UNCHANGED <<lines, idx, messages, buffer, msg_id, keywords,
                   fuzzy_threshold, raising, result, out, request, response>>

NextHighlight == Highlight \/ HighlightAgain

SpecHighlight == InitHighlight /\ [][NextHighlight]_vars

\* The text holds a highlight marker.
HasMarker(txt) ==
    \E i \in 1..Len(txt) :
        \/ Slice(txt, i, i + Len(MarkOpen) - 1) = MarkOpen
        \/ Slice(txt, i, i + Len(MarkClose) - 1) = MarkClose

\* The second application added no marker to the k-th message: markers are
\* all it can add to a rendering, which holds no newline, so the rendering
\* is unchanged.
AddsNoMarker(k) == out2[k].html = out[k].html

\* C7 as claimed: for messages whose text holds no marker, applying
\* highlight_lines to the first rendering with the same keywords adds no
\* further markers.
C7_Original ==
    pc = "highlight_twice" =>
        \A k \in 1..Len(messages) : ~HasMarker(messages[k].text) => AddsNoMarker(k)

\* C7 as amended: for messages whose text holds no marker, the second
\* application adds no further markers exactly when no keyword occurs
\* (without case) in the first rendering; a rendering in which a keyword
\* occurs, as in every highlighted one, is wrapped again.
C7_IdempotentIffNoKeywordInRendering ==
    pc = "highlight_twice" =>
        \A k \in 1..Len(messages) :
            ~HasMarker(messages[k].text) =>
                (AddsNoMarker(k) <=>
                    ~\E i \in 1..Len(keywords) :
                         IsSubstringNoCase(keywords[i], out[k].html))

C7_Witness ==
    /\ pc = "highlight_twice"
    /\ Len(messages) = 2
    /\ HasMarker(out[1].html) /\ ~AddsNoMarker(1)
    /\ ~HasMarker(out[2].html) /\ AddsNoMarker(2)

(***************************************************************************)
(* handler (api/index.py)                                                  *)
(***************************************************************************)
\* float(text) for the decimal notation digits[.digits], as a record holding
\* the value in percent (the digits after the second decimal are dropped);
\* None where float raises ValueError.
ParseFloat(text) ==
    LET t == Strip(text)
        dots == {i \in 1..Len(t) : t[i] = "."}
        dot == IF dots = {} THEN Len(t) + 1 ELSE CHOOSE i \in dots : \A j \in dots : i <= j
        whole == Slice(t, 1, dot - 1)
        frac == Slice(t, dot + 1, Len(t))
    IN  IF /\ whole # <<>>
           /\ \A i \in 1..Len(whole) : whole[i] \in Digit
           /\ \A i \in 1..Len(frac) : frac[i] \in Digit
        THEN [percent |-> 100 * IntOf(whole) + IntOf(Slice(frac \o <<"0", "0">>, 1, 2))]
        ELSE None

\* float(request.form.get("fuzzy_threshold", "0") or 0) (line 80): the field
\* is None when the form does not hold it.
FuzzyOf(field) ==
    IF field = None THEN ParseFloat(<<"0">>)
    ELSE IF field = <<>> THEN [percent |-> 0]
    ELSE ParseFloat(field)

\* [k.strip() for k in keywords_raw.splitlines() if k.strip()] (line 94), on
\* the lines of keywords_raw.
KeywordsOf(raw) == SelectSeq([i \in 1..Len(raw) |-> Strip(raw[i])], LAMBDA k : k # <<>>)

json_response(data, status) == [statusCode |-> status, kind |-> "json", body |-> data]

html_response(html) == [statusCode |-> 200, kind |-> "html", body |-> html]

file_response(rows, filename) == [statusCode |-> 200, kind |-> "file", body |-> rows, filename |-> filename]

\* The `except Exception` of the handler (lines 150-153).
ServerError == json_response("exception", 500)

\* pd.json_normalize(report) with no record_path: one row per element of a
\* list, with its scalar and list fields as the columns (a list stays one
\* cell); one row for a single object.
json_normalize(report) ==
    [i \in 1..Len(report) |->
        [word |-> report[i].word, count |-> report[i].count,
         matches |-> report[i].matches]]

\* `"report" not in data` raises TypeError on None and on a number.
MembershipRaises(data) == data.kind \in {"null", "number"}

\* The export routes (lines 117-128 and 133-144), which differ in the file
\* written.
Export(req, filename) ==
    IF MembershipRaises(req.json) THEN ServerError
    ELSE IF "report" \notin req.json.keys
    THEN json_response("Dados ausentes", 400)
    ELSE file_response(json_normalize(req.json.report), filename)

\* The /analyze route (lines 77-112).
Analyze(req) ==
    LET fuzzy == FuzzyOf(req.form.fuzzy_threshold)
        msgs == parse_whatsapp_txt(req.file.lines)
        kws == KeywordsOf(req.form.keywords)
    IN  IF fuzzy = None THEN ServerError
        ELSE IF req.file = None THEN json_response("Arquivo ausente", 400)
        ELSE html_response([report |-> analyze_keywords(msgs, kws, fuzzy.percent, {}),
                            text_lines |-> highlight_lines(msgs, kws)])

\* str.upper() of the request method.
UpperMethod(m) == IF m \in {"get", "GET"} THEN "GET" ELSE "POST"

\* handler(request)
handler(req) ==
    LET path == req.path
        method == UpperMethod(req.method)
    IN  IF path = "/" /\ method = "GET" THEN html_response("index.html")
        ELSE IF path = "/analyze" /\ method = "POST" THEN Analyze(req)
        ELSE IF path = "/export/csv" /\ method = "POST"
        THEN Export(req, "relatorio.csv")
        ELSE IF path = "/export/excel" /\ method = "POST"
        THEN Export(req, "relatorio.xlsx")
        ELSE json_response("Rota nao encontrada", 404)

(***************************************************************************)
(* The handler as a state machine: a request arrives and is answered       *)
(***************************************************************************)
PathSamples == {"/", "/analyze", "/export/csv", "/export/excel", "/other"}

MethodSamples == {"GET", "post", "POST"}

\* An uploaded transcript: a header line and a continuation line.
FileSample ==
    [lines |->
     <<<<"4", "/", "1", "2", "/", "2", "0", "2", "3", " ", "1", "1", ":", "1", "2", " ", "-", " ", "A", "n", "a", ":", " ", "o", "i">>,
      <<"o", "l", "a">>>>]

\* The forms posted: absent, empty, decimal and malformed thresholds.
FormSamples ==
    [keywords : {<<>>, <<<<"o", "i">>, <<" ">>, <<" ", "l", "a">>>>},
     fuzzy_threshold : {None, <<>>, <<"0", ".", "6">>, <<"a", "b", "c">>}]

NoForm == [keywords |-> <<>>, fuzzy_threshold |-> None]

\* The reports a client posts back for export.
ReportSamples ==
    {analyze_keywords(MessagesOf(t), k, 60, {}) :
        t \in SeqsUpTo(TextSamples, MaxMessages),
        k \in SeqsUpTo(KeywordSamples, MaxKeywords)}

\* request.get_json(): None, a number, an object without or with "report".
JsonNull == [kind |-> "null"]

JsonSamples ==
    {JsonNull, [kind |-> "number"], [kind |-> "object", keys |-> {"rows"}]}
    \cup {[kind |-> "object", keys |-> {"report"}, report |-> r] : r \in ReportSamples}

\* Form posts, with or without a file, and JSON posts.
RequestSamples ==
    {[path |-> p, method |-> m, file |-> f, form |-> fm, json |-> JsonNull] :
        p \in PathSamples, m \in MethodSamples, f \in {None, FileSample},
        fm \in FormSamples}
    \cup {[path |-> p, method |-> m, file |-> None, form |-> NoForm, json |-> j] :
        p \in PathSamples, m \in MethodSamples, j \in JsonSamples}

InitHandler ==
    /\ pc = "handler_called"
    /\ request \in RequestSamples
    /\ response = Idle
    /\ lines = Idle /\ idx = 1 /\ messages = <<>> /\ buffer = None /\ msg_id = 0
    /\ keywords = Idle /\ fuzzy_threshold = 0 /\ raising = {} /\ result = Idle
    /\ out = Idle /\ out2 = Idle

\* handler(request) returns its response.
Handle ==
    /\ pc = "handler_called"
    /\ response' = handler(request)
    /\ pc' = "handler_done"
    /\ UNCHANGED <<lines, idx, messages, buffer, msg_id, keywords,
                   fuzzy_threshold, raising, result, out, out2, request>>

NextHandler == Handle

SpecHandler == InitHandler /\ [][NextHandler]_vars

\* The rows of a report flattened to one row per match record, with the
\* parent keyword's fields on each row.
RECURSIVE Flattened(_)
Flattened(report) ==
    IF report = <<>> THEN <<>>
    ELSE [m \in 1..Len(report[1].matches) |->
             [word |-> report[1].word, count |-> report[1].count,
              match |-> report[1].matches[m]]]
         \o Flattened(Slice(report, 2, Len(report)))

RECURSIVE SumCounts(_)
SumCounts(report) ==
    IF report = <<>> THEN 0
    ELSE report[1].count + SumCounts(Slice(report, 2, Len(report)))

\* C8 as claimed: an export flattens the report to one row per match record,
\* the parent keyword's fields repeated on each row, so that the number of
\* rows is the sum of the reports' match counts.
C8_ExportOneRowPerMatch ==
    (pc = "handler_done" /\ response.kind = "file") =>
        /\ Len(response.body) = SumCounts(request.json.report)
        /\ response.body = Flattened(request.json.report)

IsExport(req) ==
    req.path \in {"/export/csv", "/export/excel"} /\ UpperMethod(req.method) = "POST"

\* C9 as claimed: a caller-contract violation is answered with 400 and never
\* a 5xx: a POST /analyze with no file, whatever the form holds, and a POST
\* /export/csv or /export/excel whose payload carries no report, a null
\* body included.
C9_ContractViolationIs400 ==
    pc = "handler_done" =>
        /\ (/\ request.path = "/analyze"
            /\ UpperMethod(request.method) = "POST"
            /\ request.file = None) => response.statusCode = 400
        /\ (/\ IsExport(request)
            /\ (request.json.kind # "object" \/ "report" \notin request.json.keys))
               => response.statusCode = 400

====
